---- MODULE Spec2Model ----
(***************************************************************************)
(* Sandboxed filesystem access layer of penr-oz-mcp-server                 *)
(* (src/app/filesystem.py): validate_path, list_directory, read_file, run  *)
(* against a small POSIX filesystem with directories, files, special files *)
(* and symlinks.                                                           *)
(*                                                                         *)
(* A path string is a sequence of characters; a name is a non-empty        *)
(* sequence of characters without "/"; a pure path (pathlib.PurePosixPath, *)
(* always absolute here) is its sequence of parts below "/".               *)
(***************************************************************************)
EXTENDS Integers, Sequences, FiniteSets, TLC

VARIABLES fs, last, calls

vars == <<fs, last, calls>>

\* ------------------------------------------------------------------ bounds

\* Longest path string handed to validate_path.
MaxPathLen == 5

\* Longest path string handed to list_directory and read_file.
MaxOpLen == 3

\* Calls of the core that can be in progress at the same time.
NumCallers == 2

\* ------------------------------------------------------------- characters

Slash == "/"
Dot == "."
Chars == {Slash, Dot, "s"}

RECURSIVE StringsUpTo(_)
StringsUpTo(n) ==
    IF n = 0 THEN {<<>>}
    ELSE LET shorter == StringsUpTo(n - 1)
         IN  shorter \cup {Append(s, c) : s \in {t \in shorter : Len(t) = n - 1}, c \in Chars}

\* The longer paths of the test suite, in this alphabet:
\* "../sandbox_sibling/secret.txt", "docs/../../etc/passwd",
\* "docs/../welcome.txt" and "/etc/passwd".
TestInputs ==
    {<<Dot, Dot, Slash, "s", "s", Slash, "s">>,
     <<"s", Slash, Dot, Dot, Slash, Dot, Dot, Slash, "s", Slash, "s">>,
     <<"s", Slash, Dot, Dot, Slash, "s", "s">>,
     <<Slash, "s", Slash, "s", "s">>}

ValidateInputs == StringsUpTo(MaxPathLen) \cup TestInputs
OpInputs == StringsUpTo(MaxOpLen)

\* ---------------------------------------------------------- configuration

CurDir == <<Dot>>
ParDir == <<Dot, Dot>>

\* PROJECT_ROOT = Path(__file__).parent.parent, the directory /p.
PROJECT_ROOT == << <<"p">> >>

\* SANDBOX_ROOT = PROJECT_ROOT / "sandbox", the directory /p/s.
SANDBOX_ROOT == Append(PROJECT_ROOT, <<"s">>)

\* ------------------------------------------------- pathlib, pure operations

\* str.startswith('/')
StartsWithSlash(str) == Len(str) > 0 /\ str[1] = Slash

\* str.lstrip('/'): every leading slash goes.
RECURSIVE LStripSlash(_)
LStripSlash(str) ==
    IF StartsWithSlash(str) THEN LStripSlash(Tail(str)) ELSE str

\* str.split('/'): the runs between slashes, empty runs included.
RECURSIVE SplitSlash(_, _)
SplitSlash(str, run) ==
    IF str = <<>> THEN <<run>>
    ELSE IF Head(str) = Slash THEN <<run>> \o SplitSlash(Tail(str), <<>>)
    ELSE SplitSlash(Tail(str), Append(run, Head(str)))

\* PurePosixPath parsing of a string: empty and "." components are dropped,
\* ".." is kept as a part.
ParseParts(str) ==
    SelectSeq(SplitSlash(str, <<>>), LAMBDA c : c # <<>> /\ c # CurDir)

\* base / str: an absolute right operand replaces the left one.
JoinPath(base, str) ==
    IF StartsWithSlash(str) THEN ParseParts(str) ELSE base \o ParseParts(str)

\* PurePath.parent: the parent of the root is the root.
Parent(p) == IF p = <<>> THEN <<>> ELSE SubSeq(p, 1, Len(p) - 1)

\* PurePath.name
Name(p) == p[Len(p)]

IsPrefix(a, b) == Len(a) <= Len(b) /\ SubSeq(b, 1, Len(a)) = a

\* PurePath.is_relative_to: part-wise prefix.
is_relative_to(p, other) == IsPrefix(other, p)

\* str(path): "/" followed by the parts joined with "/".
RECURSIVE JoinStr(_)
JoinStr(parts) ==
    IF parts = <<>> THEN <<>>
    ELSE IF Len(parts) = 1 THEN Head(parts)
    ELSE Head(parts) \o <<Slash>> \o JoinStr(Tail(parts))

PathStr(p) == <<Slash>> \o JoinStr(p)

\* ------------------------------------------------------------- filesystem

\* Where the model keeps nodes: the sandbox root, two children, a
\* grandchild, and outside the sandbox a sibling of the root with a child.
SIBLING == Append(PROJECT_ROOT, <<"s", "s">>)
ChildA == Append(SANDBOX_ROOT, <<"s">>)
ChildB == Append(SANDBOX_ROOT, <<"s", "s">>)
GrandChild == Append(ChildA, <<"s">>)
ChildDot == Append(SANDBOX_ROOT, <<Dot, "s">>)
Secret == Append(SIBLING, <<"s">>)

Locations == {SANDBOX_ROOT, SIBLING, ChildA, ChildB, ChildDot, GrandChild, Secret}

Kinds == {"none", "dir", "file", "symlink", "fifo", "sock", "chr", "blk"}

NoNode == [kind |-> "none", target |-> [abs |-> FALSE, parts |-> <<>>], data |-> <<>>]
DirNode == [NoNode EXCEPT !.kind = "dir"]
FileNode(bytes) == [NoNode EXCEPT !.kind = "file", !.data = bytes]
SpecialNode(k) == [NoNode EXCEPT !.kind = k]
\* A symlink whose target is the relative path made of the given parts.
LinkNode(parts) == [NoNode EXCEPT !.kind = "symlink", !.target = [abs |-> FALSE, parts |-> parts]]

\* The node stored at a canonical location; "/" and PROJECT_ROOT (the
\* directory the code is imported from) are directories.
NodeAt(f, loc) ==
    IF loc = <<>> \/ loc = PROJECT_ROOT THEN DirNode
    ELSE IF loc \in Locations THEN f[loc]
    ELSE NoNode

\* More symlink expansions than any loop-free resolution in this filesystem
\* can need (a path has at most MaxPathLen + 2 parts, and no chain of
\* symlinks over Locations that ends is longer than two); a resolution
\* that exceeds it is in a symlink loop (ELOOP).
SymlinkBudget == 2 * (MaxPathLen + 2)

\* Kernel path resolution from the directory cur over the remaining parts:
\* ".." goes to the physical parent, a symlink is expanded unless it is the
\* last part and follow is FALSE (lstat). WalkPart handles the part called
\* name, whose node (if any) is n, with tail still to go.
RECURSIVE Walk(_, _, _, _, _)
RECURSIVE WalkPart(_, _, _, _, _, _, _)
WalkPart(f, cur, name, tail, n, follow, budget) ==
    IF name = ParDir THEN Walk(f, Parent(cur), tail, follow, budget)
    ELSE IF n.kind = "none" THEN [err |-> "ENOENT", loc |-> Append(cur, name)]
    ELSE IF n.kind = "symlink" /\ (tail # <<>> \/ follow)
    THEN IF budget = 0 THEN [err |-> "ELOOP", loc |-> Append(cur, name)]
         ELSE Walk(f, IF n.target.abs THEN <<>> ELSE cur,
                   n.target.parts \o tail, follow, budget - 1)
    ELSE IF tail = <<>> THEN [err |-> "OK", loc |-> Append(cur, name)]
    ELSE IF n.kind = "dir" THEN Walk(f, Append(cur, name), tail, follow, budget)
    ELSE [err |-> "ENOTDIR", loc |-> Append(cur, name)]

Walk(f, cur, rest, follow, budget) ==
    IF rest = <<>> THEN [err |-> "OK", loc |-> cur]
    ELSE WalkPart(f, cur, Head(rest), Tail(rest),
                  NodeAt(f, Append(cur, Head(rest))), follow, budget)

\* What a stat call reports for the outcome w of the walk: the error, the
\* canonical location and the node found there.
StatResult(f, w) ==
    [err |-> w.err, loc |-> w.loc,
     node |-> IF w.err = "OK" THEN NodeAt(f, w.loc) ELSE NoNode]

\* os.stat (symlinks followed) and os.lstat (last part not followed).
Stat(f, p) == StatResult(f, Walk(f, <<>>, p, TRUE, SymlinkBudget))
Lstat(f, p) == StatResult(f, Walk(f, <<>>, p, FALSE, SymlinkBudget))

\* Path.exists(): stat follows symlinks; ENOENT, ENOTDIR and ELOOP give False.
exists(f, p) == Stat(f, p).err = "OK"

\* Path.is_symlink(): lstat, S_ISLNK.
is_symlink(f, p) == Lstat(f, p).node.kind = "symlink"

\* Path.is_dir(): stat follows symlinks, S_ISDIR.
is_dir(f, p) == Stat(f, p).node.kind = "dir"

\* os.path.normpath of an absolute path: ".." removes the part before it.
RECURSIVE NormPath(_, _)
NormPath(done, rest) ==
    IF rest = <<>> THEN done
    ELSE IF Head(rest) = ParDir THEN NormPath(Parent(done), Tail(rest))
    ELSE NormPath(Append(done, Head(rest)), Tail(rest))

\* posixpath._joinrealpath, strict=False: path is the part resolved so far,
\* busy the symlinks being resolved (seen[...] = None). A part that cannot
\* be lstat-ed is taken as it is; ".." removes the last resolved part; a
\* symlink is replaced by its resolved target; on a loop the path is
\* returned with the rest unresolved. (The cache of resolved links in seen
\* only saves recomputation.) RealpathPart handles newpath = path/name
\* whose lstat gave node; RealpathLink continues after the link resolved to r.
RECURSIVE JoinRealpath(_, _, _, _)
RECURSIVE RealpathPart(_, _, _, _, _, _)
RealpathLink(f, r, tail, busy) ==
    IF ~r.ok THEN [path |-> r.path \o tail, ok |-> FALSE]
    ELSE JoinRealpath(f, r.path, tail, busy)

RealpathPart(f, path, newpath, tail, node, busy) ==
    IF node.kind # "symlink" THEN JoinRealpath(f, newpath, tail, busy)
    ELSE IF newpath \in busy THEN [path |-> newpath \o tail, ok |-> FALSE]
    ELSE RealpathLink(f, JoinRealpath(f, IF node.target.abs THEN <<>> ELSE path,
                                      node.target.parts, busy \cup {newpath}),
                      tail, busy)

JoinRealpath(f, path, rest, busy) ==
    IF rest = <<>> THEN [path |-> path, ok |-> TRUE]
    ELSE IF Head(rest) = ParDir THEN JoinRealpath(f, Parent(path), Tail(rest), busy)
    ELSE RealpathPart(f, path, Append(path, Head(rest)), Tail(rest),
                      Lstat(f, Append(path, Head(rest))).node, busy)

\* Mutant of realpath: the path is made absolute but not resolved
\* (Path.absolute() in place of Path.resolve()).
RealpathUnresolved(f, p) == p

\* os.path.realpath(p), strict=False.
realpath(f, p) == NormPath(<<>>, JoinRealpath(f, <<>>, p, {}).path)

\* The interpreters the server runs on: up to Python 3.12 Path.resolve()
\* raises RuntimeError on a symlink loop, from 3.13 on it does not.
Interpreters == {"py312", "py313"}

\* The end of Path.resolve(), strict=False: up to 3.12 the result s of
\* realpath is stat-ed and ELOOP becomes RuntimeError.
ResolveCheck(f, s, py) ==
    IF py = "py312" /\ Stat(f, s).err = "ELOOP"
    THEN [err |-> "RuntimeError", path |-> s]
    ELSE [err |-> "OK", path |-> s]

\* Path.resolve(), strict=False.
resolve(f, p, py) == ResolveCheck(f, realpath(f, p), py)

\* Path.mkdir(parents=True, exist_ok=True): os.mkdir; on ENOENT the parents
\* are made first; on any other error the call succeeds only if the path
\* is a directory (symlinks followed). MkdirWith has the lstat of the path
\* and the stat of its parent; MkdirIn makes the directory once the parents
\* are there.
RECURSIVE mkdir(_, _)

\* Mutant of MkdirWith: mkdir without exist_ok.
MkdirNoExistOk(f, p, st, par) ==
    IF st.err = "OK" \/ par.err \in {"ENOTDIR", "ELOOP"}
         \/ (par.err = "OK" /\ par.node.kind # "dir")
    THEN [fs |-> f, err |-> "OSError"]
    ELSE [fs |-> [f EXCEPT ![Append(par.loc, Name(p))] = DirNode], err |-> "OK"]

\* Mutant of MkdirWith: whatever is at the path and is no directory is
\* replaced by a new directory.
MkdirReplacing(f, p, st, par) ==
    IF par.err # "OK" \/ par.node.kind # "dir"
    THEN [fs |-> f, err |-> "OSError"]
    ELSE [fs |-> [f EXCEPT ![Append(par.loc, Name(p))] =
                     IF @.kind = "dir" THEN @ ELSE DirNode],
          err |-> "OK"]

MkdirIn(up, p) ==
    IF up.err # "OK" THEN up
    ELSE [fs |-> [up.fs EXCEPT ![Append(Stat(up.fs, Parent(p)).loc, Name(p))] = DirNode],
          err |-> "OK"]

MkdirWith(f, p, st, par) ==
    IF st.err = "OK" \/ par.err \in {"ENOTDIR", "ELOOP"}
         \/ (par.err = "OK" /\ par.node.kind # "dir")
    THEN [fs |-> f, err |-> IF is_dir(f, p) THEN "OK" ELSE "OSError"]
    ELSE IF par.err = "ENOENT" THEN MkdirIn(mkdir(f, Parent(p)), p)
    ELSE [fs |-> [f EXCEPT ![Append(par.loc, Name(p))] = DirNode], err |-> "OK"]

mkdir(f, p) == MkdirWith(f, p, Lstat(f, p), Stat(f, Parent(p)))

\* ------------------------------------------------------------- outcomes

\* What a call gives back: kind "ok" with the returned value, or the kind of
\* the exception raised with the text of its message, the path string the
\* message quotes and the absolute path an OS error's text carries.
Ok(v) == [kind |-> "ok", value |-> v, msg |-> "", arg |-> <<>>, leak |-> <<>>]
Raise(kind, msg, arg, leak) ==
    [kind |-> kind, value |-> <<>>, msg |-> msg, arg |-> arg, leak |-> leak]

SymlinkMsg == "Symlinks are not allowed"
EscapeMsg == "attempts to escape sandbox"
InvalidMsg == "Invalid path"

\* ---------------------------------------------------------- validate_path

\* The while loop of validate_path: from current up through its lexical
\* parents until stop; TRUE when a part that exists() is a symlink.
RECURSIVE SymlinkOnWay(_, _, _)
SymlinkOnWay(f, current, stop) ==
    IF current = stop THEN FALSE
    ELSE IF exists(f, current) /\ is_symlink(f, current) THEN TRUE
    ELSE IF current = Parent(current) THEN FALSE
    ELSE SymlinkOnWay(f, Parent(current), stop)

\* Mutant of StripLeading: one leading slash is removed (path[1:]).
StripOne(path) == IF StartsWithSlash(path) THEN Tail(path) ELSE path

\* The path the rest of validate_path works on: leading slashes removed.
StripLeading(path) ==
    IF StartsWithSlash(path) THEN LStripSlash(path) ELSE path

\* Mutant of InSandbox: str(full_path).startswith(str(sandbox_resolved)).
InSandboxByString(full_path, sandbox_resolved) ==
    IsPrefix(PathStr(sandbox_resolved), PathStr(full_path))

\* The bounds check of validate_path.
InSandbox(full_path, sandbox_resolved) == is_relative_to(full_path, sandbox_resolved)

\* Mutant of ValidateResolved: the bounds check is left out.
ValidateResolvedUnchecked(g, rel, full_path, sandbox_resolved) ==
    IF full_path.err # "OK"
    THEN [fs |-> g, out |-> Raise(full_path.err, "Symlink loop", <<>>, PathStr(full_path.path))]
    ELSE [fs |-> g, out |-> Ok(full_path.path)]

\* The end of validate_path: full_path is candidate_path.resolve().
ValidateResolved(g, rel, full_path, sandbox_resolved) ==
    IF full_path.err # "OK"
    THEN [fs |-> g, out |-> Raise(full_path.err, "Symlink loop", <<>>, PathStr(full_path.path))]
    ELSE IF ~InSandbox(full_path.path, sandbox_resolved)
    THEN [fs |-> g, out |-> Raise("PathValidationError", EscapeMsg, rel, <<>>)]
    ELSE [fs |-> g, out |-> Ok(full_path.path)]

\* validate_path from the symlink check on.
ValidateCandidate(g, rel, candidate_path, sandbox_resolved, py) ==
    IF sandbox_resolved.err # "OK"
    THEN [fs |-> g, out |-> Raise(sandbox_resolved.err, "Symlink loop", <<>>,
                                  PathStr(sandbox_resolved.path))]
    ELSE IF SymlinkOnWay(g, candidate_path, sandbox_resolved.path)
    THEN [fs |-> g, out |-> Raise("PathValidationError", SymlinkMsg, rel, <<>>)]
    ELSE ValidateResolved(g, rel, resolve(g, candidate_path, py), sandbox_resolved.path)

\* validate_path after SANDBOX_ROOT.mkdir(...) gave made; an OSError of
\* mkdir is reported with the path as the caller gave it.
ValidateMade(made, path, rel, py) ==
    IF made.err # "OK"
    THEN [fs |-> made.fs,
          out |-> Raise("PathValidationError", InvalidMsg, path, PathStr(SANDBOX_ROOT))]
    ELSE ValidateCandidate(made.fs, rel, JoinPath(SANDBOX_ROOT, rel),
                           resolve(made.fs, SANDBOX_ROOT, py), py)

\* validate_path(path) on the filesystem f under interpreter py: the
\* filesystem it leaves and its outcome.
validate_path(f, path, py) ==
    ValidateMade(mkdir(f, SANDBOX_ROOT), path, StripLeading(path), py)

\* --------------------------------------------------------- list_directory

\* Code points of the characters, for the order sorted() puts names in.
CharCode(c) == CASE c = Dot -> 46 [] c = Slash -> 47 [] c = "p" -> 112 [] OTHER -> 115

\* a < b for two names (str comparison, by code point).
RECURSIVE NameLess(_, _)
NameLess(a, b) ==
    IF b = <<>> THEN FALSE
    ELSE IF a = <<>> THEN TRUE
    ELSE IF Head(a) # Head(b) THEN CharCode(Head(a)) < CharCode(Head(b))
    ELSE NameLess(Tail(a), Tail(b))

\* sorted() of a set of names.
RECURSIVE SortNames(_)
SortNames(names) ==
    IF names = {} THEN <<>>
    ELSE LET least == CHOOSE x \in names : \A y \in names \ {x} : NameLess(x, y)
         IN  <<least>> \o SortNames(names \ {least})

\* The names Path.iterdir() yields for the directory stored at loc.
ChildNames(f, loc) ==
    {Name(c) : c \in {d \in Locations : Parent(d) = loc /\ f[d].kind # "none"}}

\* st_mode of a node: the file type bits and the permission bits.
StMode(node) ==
    CASE node.kind = "dir" -> 16384 + 493
      [] node.kind = "file" -> 32768 + 420
      [] node.kind = "symlink" -> 40960 + 511
      [] node.kind = "fifo" -> 4096 + 420
      [] node.kind = "chr" -> 8192 + 420
      [] node.kind = "blk" -> 24576 + 420
      [] node.kind = "sock" -> 49152 + 493
      [] OTHER -> 0

\* st_size of a node.
StSize(node) == Len(node.data)

RECURSIVE BitAnd(_, _)
BitAnd(a, b) ==
    IF a = 0 \/ b = 0 THEN 0
    ELSE (a % 2) * (b % 2) + 2 * BitAnd(a \div 2, b \div 2)

\* 0o040000
S_IFDIR == 16384

\* is_dir = item_stat.st_mode & 0o040000
ModeIsDir(mode) == BitAnd(mode, S_IFDIR) # 0

\* Mutant of ListingOrder: the children in the order the directory yields
\* them (here: descending), without sorted().
RECURSIVE ListingUnsorted(_)
ListingUnsorted(names) ==
    IF names = {} THEN <<>>
    ELSE LET last_name == CHOOSE x \in names : \A y \in names \ {x} : NameLess(y, x)
         IN  <<last_name>> \o ListingUnsorted(names \ {last_name})

\* The order list_directory walks the children in: sorted(full_path.iterdir()).
ListingOrder(names) == SortNames(names)

\* The entry list_directory builds for item, whose lstat().st_mode & S_IFDIR
\* is isdir; the size key is present (a one-element sequence) for
\* non-directories.
Entry(item, item_stat, isdir) ==
    [name |-> Name(item),
     type |-> IF isdir THEN "directory" ELSE "file",
     path |-> JoinStr(SubSeq(item, Len(SANDBOX_ROOT) + 1, Len(item))),
     size |-> IF isdir THEN <<>> ELSE <<StSize(item_stat)>>]

EntryOf(item, item_stat) == Entry(item, item_stat, ModeIsDir(StMode(item_stat)))

\* The loop of list_directory over the ordered children: symlinks are skipped.
RECURSIVE Entries(_, _, _)
Entries(f, full_path, names) ==
    IF names = <<>> THEN <<>>
    ELSE IF is_symlink(f, Append(full_path, Head(names)))
    THEN Entries(f, full_path, Tail(names))
    ELSE <<EntryOf(Append(full_path, Head(names)),
                   Lstat(f, Append(full_path, Head(names))).node)>>
         \o Entries(f, full_path, Tail(names))

\* Mutant of ListAt: anything that is not a directory is reported as not
\* found.
ListAtConflated(g, full_path, path) ==
    IF ~is_dir(g, full_path)
    THEN [fs |-> g, out |-> Raise("FileNotFoundError", "Directory not found", path, <<>>)]
    ELSE [fs |-> g, out |-> Ok(Entries(g, full_path,
                                       ListingOrder(ChildNames(g, Stat(g, full_path).loc))))]

\* list_directory after validate_path gave full_path on the filesystem g.
ListAt(g, full_path, path) ==
    IF ~exists(g, full_path)
    THEN [fs |-> g, out |-> Raise("FileNotFoundError", "Directory not found", path, <<>>)]
    ELSE IF ~is_dir(g, full_path)
    THEN [fs |-> g, out |-> Raise("NotADirectoryError", "Not a directory", path, <<>>)]
    ELSE IF ChildNames(g, Stat(g, full_path).loc) # {} /\ ~is_relative_to(full_path, SANDBOX_ROOT)
    THEN [fs |-> g, out |-> Raise("ValueError", "is not in the subpath of", <<>>,
                                  PathStr(SANDBOX_ROOT))]
    ELSE [fs |-> g, out |-> Ok(Entries(g, full_path,
                                       ListingOrder(ChildNames(g, Stat(g, full_path).loc))))]

ListValidated(v, path) ==
    IF v.out.kind # "ok" THEN v ELSE ListAt(v.fs, v.out.value, path)

list_directory(f, path, py) == ListValidated(validate_path(f, path, py), path)

\* --------------------------------------------------------------- read_file

IsCont(b) == 128 <= b /\ b <= 191

\* bytes.decode('utf-8'), strict: the code points, or ok = FALSE.
RECURSIVE Utf8Decode(_)
Utf8Decode(bytes) ==
    IF bytes = <<>> THEN [ok |-> TRUE, text |-> <<>>]
    ELSE LET b == bytes[1]
             n == IF b < 128 THEN 1
                  ELSE IF 194 <= b /\ b <= 223 THEN 2
                  ELSE IF 224 <= b /\ b <= 239 THEN 3
                  ELSE IF 240 <= b /\ b <= 244 THEN 4
                  ELSE 0
             wellFormed ==
                 /\ n > 0
                 /\ Len(bytes) >= n
                 /\ \A i \in 2..n : IsCont(bytes[i])
                 /\ (b = 224 => bytes[2] >= 160)
                 /\ (b = 237 => bytes[2] <= 159)
                 /\ (b = 240 => bytes[2] >= 144)
                 /\ (b = 244 => bytes[2] <= 143)
             cp == IF n = 1 THEN b
                   ELSE IF n = 2 THEN (b - 192) * 64 + (bytes[2] - 128)
                   ELSE IF n = 3 THEN (b - 224) * 4096 + (bytes[2] - 128) * 64 + (bytes[3] - 128)
                   ELSE (b - 240) * 262144 + (bytes[2] - 128) * 4096
                        + (bytes[3] - 128) * 64 + (bytes[4] - 128)
             more == Utf8Decode(SubSeq(bytes, n + 1, Len(bytes)))
         IN  IF ~wellFormed THEN [ok |-> FALSE, text |-> <<>>]
             ELSE IF ~more.ok THEN more
             ELSE [ok |-> TRUE, text |-> <<cp>> \o more.text]

\* Text mode with newline=None: "\r\n" and "\r" are read as "\n".
RECURSIVE UniversalNewlines(_)
UniversalNewlines(text) ==
    IF text = <<>> THEN <<>>
    ELSE IF Head(text) = 13
    THEN <<10>> \o UniversalNewlines(IF Len(text) > 1 /\ text[2] = 10
                                     THEN Tail(Tail(text)) ELSE Tail(text))
    ELSE <<Head(text)>> \o UniversalNewlines(Tail(text))

\* Path.read_text(encoding='utf-8') of the node a path leads to: a socket
\* cannot be opened (ENXIO), the open of a FIFO that nobody writes to does
\* not return; anything else yields its bytes, decoded (d).
ReadDecoded(node, d) ==
    IF node.kind = "sock" THEN [err |-> "OSError", text |-> <<>>]
    ELSE IF node.kind = "fifo" THEN [err |-> "Blocked", text |-> <<>>]
    ELSE IF ~d.ok THEN [err |-> "UnicodeDecodeError", text |-> <<>>]
    ELSE [err |-> "OK", text |-> UniversalNewlines(d.text)]

read_text(node) == ReadDecoded(node, Utf8Decode(node.data))

\* The try block of read_file: got is what read_text gave.
ReadGot(g, full_path, path, got) ==
    IF got.err = "UnicodeDecodeError"
    THEN [fs |-> g, out |-> Raise("UnicodeDecodeError", "File is not valid UTF-8 text", path, <<>>)]
    ELSE IF got.err = "Blocked"
    THEN [fs |-> g, out |-> Raise("Blocked", "", <<>>, <<>>)]
    ELSE IF got.err # "OK"
    THEN [fs |-> g, out |-> Raise(got.err, "No such device or address", <<>>, PathStr(full_path))]
    ELSE [fs |-> g, out |-> Ok(got.text)]

\* read_file after validate_path gave full_path on the filesystem g.
ReadAt(g, full_path, path) ==
    IF ~exists(g, full_path)
    THEN [fs |-> g, out |-> Raise("FileNotFoundError", "File not found", path, <<>>)]
    ELSE IF is_dir(g, full_path)
    THEN [fs |-> g, out |-> Raise("IsADirectoryError", "Path is a directory", path, <<>>)]
    ELSE ReadGot(g, full_path, path, read_text(Stat(g, full_path).node))

ReadValidated(v, path) ==
    IF v.out.kind # "ok" THEN v ELSE ReadAt(v.fs, v.out.value, path)

read_file(f, path, py) == ReadValidated(validate_path(f, path, py), path)

\* ------------------------------------------------------- calls in steps

\* A call in progress, one system call at a time. pc is the place in the
\* code; cur, root, full, names and acc are the locals current,
\* sandbox_resolved, full_path, the children still to visit and entries;
\* loc is the directory or file the call finally opened; made tells that
\* this call created SANDBOX_ROOT and raced that another call had not yet
\* passed mkdir when this one began.
Callers == 1..NumCallers

IdleCall ==
    [op |-> "none", path |-> <<>>, pc |-> "idle", cur |-> <<>>, root |-> <<>>,
     full |-> <<>>, names |-> <<>>, acc |-> <<>>, loc |-> <<>>,
     made |-> FALSE, raced |-> FALSE, out |-> Ok(<<>>)]

At(c, pc) == [c EXCEPT !.pc = pc]

\* The call ends with the outcome out; its locals are gone.
Done(c, out) ==
    [IdleCall EXCEPT !.op = c.op, !.path = c.path, !.pc = "done", !.loc = c.loc,
                     !.made = c.made, !.raced = c.raced, !.out = out]

Keep(f, c) == [fs |-> f, call |-> c]

RootError(c) ==
    Done(c, Raise("PathValidationError", InvalidMsg, c.path, PathStr(SANDBOX_ROOT)))

\* Mutant of StepMkdir: os.mkdir without exist_ok, an existing root is an
\* error.
StepMkdirNoExistOk(f, c, made) ==
    IF Lstat(f, SANDBOX_ROOT).err = "OK" THEN Keep(f, RootError(c))
    ELSE IF made.err # "OK" THEN Keep(made.fs, RootError(c))
    ELSE [fs |-> made.fs, call |-> [c EXCEPT !.pc = "resolve_root", !.made = TRUE]]

\* SANDBOX_ROOT.mkdir(parents=True, exist_ok=True), the os.mkdir call:
\* what is already there makes it fail and is looked at next; made is
\* what creating the directory gives.
StepMkdir(f, c, made) ==
    IF Lstat(f, SANDBOX_ROOT).err = "OK" THEN Keep(f, At(c, "mkdir_isdir"))
    ELSE IF made.err # "OK" THEN Keep(made.fs, RootError(c))
    ELSE [fs |-> made.fs, call |-> [c EXCEPT !.pc = "resolve_root", !.made = TRUE]]

\* ... and its is_dir() after os.mkdir failed.
StepMkdirIsDir(f, c) ==
    IF is_dir(f, SANDBOX_ROOT) THEN At(c, "resolve_root") ELSE RootError(c)

\* sandbox_resolved = SANDBOX_ROOT.resolve(), with candidate_path and
\* current set up; r is what resolve() gave.
StepResolveRoot(c, r) ==
    IF r.err # "OK"
    THEN Done(c, Raise(r.err, "Symlink loop", <<>>, PathStr(r.path)))
    ELSE [c EXCEPT !.pc = "walk", !.root = r.path,
                   !.cur = JoinPath(SANDBOX_ROOT, StripLeading(c.path))]

\* current = current.parent, or the break at the filesystem root.
WalkUp(c) ==
    IF c.cur = Parent(c.cur) THEN At(c, "resolve")
    ELSE [c EXCEPT !.pc = "walk", !.cur = Parent(c.cur)]

\* The loop test and current.exists().
StepWalk(f, c) ==
    IF c.cur = c.root THEN At(c, "resolve")
    ELSE IF exists(f, c.cur) THEN At(c, "walk_islink")
    ELSE WalkUp(c)

\* current.is_symlink().
StepWalkIsLink(f, c) ==
    IF is_symlink(f, c.cur)
    THEN Done(c, Raise("PathValidationError", SymlinkMsg, StripLeading(c.path), <<>>))
    ELSE WalkUp(c)

\* full_path = candidate_path.resolve() and the bounds check; v is what
\* the end of validate_path gives. list_directory and read_file go on
\* with the path.
StepResolve(c, v) ==
    IF v.out.kind # "ok" \/ c.op = "validate_path" THEN Done(c, v.out)
    ELSE [c EXCEPT !.full = v.out.value,
                   !.pc = IF c.op = "list_directory" THEN "l_exists" ELSE "r_exists"]

\* list_directory: full_path.exists(), full_path.is_dir().
StepListExists(f, c) ==
    IF exists(f, c.full) THEN At(c, "l_isdir")
    ELSE Done(c, Raise("FileNotFoundError", "Directory not found", c.path, <<>>))

StepListIsDir(f, c) ==
    IF is_dir(f, c.full) THEN At(c, "l_iterdir")
    ELSE Done(c, Raise("NotADirectoryError", "Not a directory", c.path, <<>>))

\* sorted(full_path.iterdir()): st is the stat of full_path now.
StepIterdir(f, c, st) ==
    IF st.err # "OK"
    THEN Done(c, Raise("FileNotFoundError", "No such file or directory", <<>>, PathStr(c.full)))
    ELSE IF st.node.kind # "dir"
    THEN Done(c, Raise("NotADirectoryError", "Not a directory", <<>>, PathStr(c.full)))
    ELSE [c EXCEPT !.pc = "l_item", !.loc = st.loc,
                   !.names = ListingOrder(ChildNames(f, st.loc))]

\* The loop over the children: item.is_symlink().
StepItem(f, c) ==
    IF c.names = <<>> THEN Done(c, Ok(c.acc))
    ELSE IF is_symlink(f, Append(c.full, Head(c.names)))
    THEN [c EXCEPT !.names = Tail(c.names)]
    ELSE At(c, "l_lstat")

\* item.lstat() and the entry; st is the lstat of item now.
StepItemLstat(c, item, st) ==
    IF st.err # "OK"
    THEN Done(c, Raise("FileNotFoundError", "No such file or directory", <<>>, PathStr(item)))
    ELSE IF ~is_relative_to(item, SANDBOX_ROOT)
    THEN Done(c, Raise("ValueError", "is not in the subpath of", <<>>, PathStr(SANDBOX_ROOT)))
    ELSE [c EXCEPT !.pc = "l_item", !.names = Tail(c.names),
                   !.acc = Append(c.acc, EntryOf(item, st.node))]

\* read_file: full_path.exists(), full_path.is_dir().
StepReadExists(f, c) ==
    IF exists(f, c.full) THEN At(c, "r_isdir")
    ELSE Done(c, Raise("FileNotFoundError", "File not found", c.path, <<>>))

StepReadIsDir(f, c) ==
    IF is_dir(f, c.full) THEN Done(c, Raise("IsADirectoryError", "Path is a directory", c.path, <<>>))
    ELSE At(c, "r_read")

\* full_path.read_text(encoding='utf-8'): st is the stat of full_path now.
StepReadText(f, c, st) ==
    IF st.err # "OK"
    THEN Done(c, Raise("FileNotFoundError", "No such file or directory", <<>>, PathStr(c.full)))
    ELSE IF st.node.kind = "dir"
    THEN Done(c, Raise("IsADirectoryError", "Is a directory", <<>>, PathStr(c.full)))
    ELSE Done([c EXCEPT !.loc = st.loc], ReadGot(f, c.full, c.path, read_text(st.node)).out)

\* The next system call of the call c on the filesystem f: the filesystem
\* and the call after it.
StepCall(f, c, py) ==
    CASE c.pc = "mkdir" -> StepMkdir(f, c, mkdir(f, SANDBOX_ROOT))
      [] c.pc = "mkdir_isdir" -> Keep(f, StepMkdirIsDir(f, c))
      [] c.pc = "resolve_root" -> Keep(f, StepResolveRoot(c, resolve(f, SANDBOX_ROOT, py)))
      [] c.pc = "walk" -> Keep(f, StepWalk(f, c))
      [] c.pc = "walk_islink" -> Keep(f, StepWalkIsLink(f, c))
      [] c.pc = "resolve" ->
            Keep(f, StepResolve(c, ValidateResolved(f, StripLeading(c.path),
                        resolve(f, JoinPath(SANDBOX_ROOT, StripLeading(c.path)), py),
                        c.root)))
      [] c.pc = "l_exists" -> Keep(f, StepListExists(f, c))
      [] c.pc = "l_isdir" -> Keep(f, StepListIsDir(f, c))
      [] c.pc = "l_iterdir" -> Keep(f, StepIterdir(f, c, Stat(f, c.full)))
      [] c.pc = "l_item" -> Keep(f, StepItem(f, c))
      [] c.pc = "l_lstat" ->
            Keep(f, StepItemLstat(c, Append(c.full, Head(c.names)),
                                  Lstat(f, Append(c.full, Head(c.names)))))
      [] c.pc = "r_exists" -> Keep(f, StepReadExists(f, c))
      [] c.pc = "r_isdir" -> Keep(f, StepReadIsDir(f, c))
      [] c.pc = "r_read" -> Keep(f, StepReadText(f, c, Stat(f, c.full)))

\* ------------------------------------------------------------ outer layers

\* tools.list_files(path) and tools.read_text_file(path).
list_files(f, path, py) == list_directory(f, path, py)
read_text_file(f, path, py) == read_file(f, path, py)

\* Mutant of RemoveLeadingSlash: path[1:] whatever the first character is.
DropFirstChar(path) == IF path = <<>> THEN path ELSE Tail(path)

\* resources.ozfs_resource: path[1:] when the path starts with a slash.
RemoveLeadingSlash(path) == IF StartsWithSlash(path) THEN Tail(path) ELSE path

ozfs_resource(f, path, py) == read_file(f, RemoveLeadingSlash(path), py)

\* ------------------------------------------------------------ environment

\* The record of the call being answered; NoCall between requests.
NoCall == [op |-> "none", path |-> <<>>, py |-> "py312", out |-> Ok(<<>>),
           made |-> FALSE]

\* The server handles one request at a time; the filesystem is changed by
\* others between requests.
Idle == last = NoCall

\* File contents (bytes).
Text == <<87>>

\* What the tests and other processes put into the filesystem while the
\* path validator is exercised: pairs of a location and a node.
ValidateMenu ==
    {<<SANDBOX_ROOT, DirNode>>, <<SANDBOX_ROOT, FileNode(Text)>>,
     <<SANDBOX_ROOT, LinkNode(<< <<"s", "s">> >>)>>,
     <<SIBLING, DirNode>>, <<SIBLING, FileNode(Text)>>,
     <<SIBLING, LinkNode(<< <<"s">> >>)>>,
     <<ChildA, DirNode>>, <<ChildA, FileNode(Text)>>,
     <<ChildA, LinkNode(<< <<"s", "s">> >>)>>,
     <<ChildA, LinkNode(<<ParDir, <<"s", "s">> >>)>>,
     <<ChildA, LinkNode(<< <<"s">> >>)>>,
     <<ChildB, FileNode(Text)>>,
     <<GrandChild, FileNode(Text)>>,
     <<Secret, FileNode(Text)>>}

\* File contents that are not text: a byte that is never valid UTF-8, a
\* two-byte character, the same character cut short, and a CR LF line end.
BadByte == <<255>>
TwoByte == <<195, 169>>
CutShort == <<87, 195>>
CrLf == <<87, 13, 10>>

\* What is put into the sandbox while listing and reading are exercised.
OpsMenu ==
    {<<SANDBOX_ROOT, DirNode>>, <<SANDBOX_ROOT, FileNode(Text)>>,
     <<ChildA, DirNode>>, <<ChildA, FileNode(TwoByte)>>, <<ChildA, FileNode(BadByte)>>,
     <<ChildA, FileNode(CutShort)>>, <<ChildA, FileNode(CrLf)>>,
     <<ChildA, LinkNode(<< <<"s", "s">> >>)>>,
     <<ChildB, DirNode>>, <<ChildB, FileNode(Text)>>, <<ChildB, FileNode(<<>>)>>,
     <<ChildB, SpecialNode("fifo")>>, <<ChildB, SpecialNode("sock")>>,
     <<ChildB, SpecialNode("chr")>>, <<ChildB, SpecialNode("blk")>>,
     <<ChildB, LinkNode(<< <<"s">> >>)>>,
     <<ChildDot, FileNode(Text)>>, <<ChildDot, LinkNode(<< <<"s">> >>)>>,
     <<GrandChild, FileNode(Text)>>}

HasChildren(f, loc) ==
    \E c \in Locations : Len(c) > Len(loc) /\ IsPrefix(loc, c) /\ f[c].kind # "none"

\* A node appears where there was none, in an existing directory
\* (symlink_to in the tests, mkdir, open, mknod elsewhere).
EnvCreate(menu) ==
    \E m \in menu :
        /\ Idle
        /\ fs[m[1]].kind = "none"
        /\ NodeAt(fs, Parent(m[1])).kind = "dir"
        /\ fs' = [fs EXCEPT ![m[1]] = m[2]]
        /\ UNCHANGED <<last, calls>>

\* A node goes away (unlink in the tests, rmdir of an empty directory).
EnvRemove ==
    \E loc \in Locations :
        /\ Idle
        /\ fs[loc].kind # "none"
        /\ ~HasChildren(fs, loc)
        /\ fs' = [fs EXCEPT ![loc] = NoNode]
        /\ UNCHANGED <<last, calls>>

\* ----------------------------------------------------------------- system

\* The checked-out repository: sandbox/ with a text file and a directory
\* holding a file; nothing beside the sandbox.
Init ==
    /\ fs = [loc \in Locations |->
                IF loc = SANDBOX_ROOT \/ loc = ChildA THEN DirNode
                ELSE IF loc = ChildB \/ loc = GrandChild THEN FileNode(Text)
                ELSE NoNode]
    /\ last = NoCall
    /\ calls = [k \in Callers |-> IdleCall]

\* A call of op with the given path ran to its end r: the filesystem is as
\* it left it and the outcome is what the caller gets; made tells whether
\* the call created SANDBOX_ROOT.
Called(op, path, py, r) ==
    /\ fs' = r.fs
    /\ last' = [op |-> op, path |-> path, py |-> py, out |-> r.out,
                made |-> r.fs[SANDBOX_ROOT] # fs[SANDBOX_ROOT]]
    /\ UNCHANGED calls

ValidatePath ==
    \E path \in ValidateInputs, py \in Interpreters :
        /\ Idle
        /\ Called("validate_path", path, py, validate_path(fs, path, py))

ListDirectory ==
    \E path \in OpInputs, py \in Interpreters :
        /\ Idle
        /\ Called("list_directory", path, py, list_directory(fs, path, py))

ReadFile ==
    \E path \in OpInputs, py \in Interpreters :
        /\ Idle
        /\ Called("read_file", path, py, read_file(fs, path, py))

ListFiles ==
    \E path \in OpInputs, py \in Interpreters :
        /\ Idle
        /\ Called("list_files", path, py, list_files(fs, path, py))

ReadTextFile ==
    \E path \in OpInputs, py \in Interpreters :
        /\ Idle
        /\ Called("read_text_file", path, py, read_text_file(fs, path, py))

OzfsResource ==
    \E path \in OpInputs, py \in Interpreters :
        /\ Idle
        /\ Called("ozfs_resource", path, py, ozfs_resource(fs, path, py))

\* The outcome goes back to the caller (the return of the tool function).
Return ==
    /\ ~Idle
    /\ last' = NoCall
    /\ UNCHANGED <<fs, calls>>

Next ==
    \/ EnvCreate(ValidateMenu)
    \/ EnvRemove
    \/ ValidatePath
    \/ Return

Spec == Init /\ [][Next]_vars

NextOps ==
    \/ EnvCreate(OpsMenu)
    \/ EnvRemove
    \/ ListDirectory
    \/ ReadFile
    \/ Return

SpecOps == Init /\ [][NextOps]_vars

\* All three operations of the core.
NextAll ==
    \/ EnvCreate(OpsMenu)
    \/ EnvRemove
    \/ ValidatePath
    \/ ListDirectory
    \/ ReadFile
    \/ Return

SpecAll == Init /\ [][NextAll]_vars

\* The tools and the resource the server registers.
NextOuter ==
    \/ EnvCreate(OpsMenu)
    \/ EnvRemove
    \/ ListFiles
    \/ ReadTextFile
    \/ OzfsResource
    \/ Return

SpecOuter == Init /\ [][NextOuter]_vars

\* Paths of the calls that run in steps: "", "s" and "s/s".
StepInputs == {<<>>, <<"s">>, <<"s", Slash, "s">>}

Operations == {"validate_path", "list_directory", "read_file"}

\* What is there while calls run side by side.
ConcMenu ==
    {<<SANDBOX_ROOT, DirNode>>,
     <<ChildA, DirNode>>, <<ChildA, LinkNode(<< <<"s", "s">> >>)>>,
     <<ChildB, FileNode(Text)>>}

\* What another process puts in and beside the sandbox while a call runs.
SecretText == <<83>>
RaceMenu ==
    {<<SANDBOX_ROOT, DirNode>>,
     <<SIBLING, DirNode>>, <<Secret, FileNode(SecretText)>>,
     <<ChildA, DirNode>>, <<ChildA, LinkNode(<<ParDir, <<"s", "s">> >>)>>,
     <<ChildB, FileNode(Text)>>,
     <<GrandChild, FileNode(Text)>>}

InFlight(k) == calls[k].pc \notin {"idle", "done"}
Quiet == \A k \in Callers : calls[k].pc = "idle"

\* A request arrives and the call k begins.
Begin(k) ==
    \E op \in Operations, path \in StepInputs :
        /\ calls[k].pc = "idle"
        /\ calls' = [calls EXCEPT ![k] =
                        [IdleCall EXCEPT !.op = op, !.path = path, !.pc = "mkdir",
                                         !.raced = \E j \in Callers : calls[j].pc = "mkdir"]]
        /\ UNCHANGED <<fs, last>>

Stepped(k, r) ==
    /\ fs' = r.fs
    /\ calls' = [calls EXCEPT ![k] = r.call]
    /\ UNCHANGED last

\* The call k makes its next system call.
Step(k) ==
    \E py \in Interpreters :
        /\ InFlight(k)
        /\ Stepped(k, StepCall(fs, calls[k], py))

\* The outcome of the call k goes back to its caller.
Finish(k) ==
    /\ calls[k].pc = "done"
    /\ calls' = [calls EXCEPT ![k] = IdleCall]
    /\ UNCHANGED <<fs, last>>

\* Calls side by side; the filesystem is changed by others only while no
\* call runs.
NextConc ==
    \/ Quiet /\ EnvCreate(ConcMenu)
    \/ Quiet /\ EnvRemove
    \/ \E k \in Callers : Begin(k)
    \/ \E k \in Callers : Step(k)
    \/ \E k \in Callers : Finish(k)

SpecConc == Init /\ [][NextConc]_vars

\* One call, with another process changing the filesystem at any time.
NextRace ==
    \/ EnvCreate(RaceMenu)
    \/ EnvRemove
    \/ Begin(1)
    \/ Step(1)
    \/ Finish(1)

SpecRace == Init /\ [][NextRace]_vars

\* ----------------------------------------------------------------- claims

Range(seq) == {seq[i] : i \in 1..Len(seq)}

\* The candidate path of a call: SANDBOX_ROOT joined with the components of
\* the path string.
Candidate(path) == SANDBOX_ROOT \o ParseParts(path)

LexicalPrefixes(c) == {SubSeq(c, 1, n) : n \in 1..Len(c)}

\* No component of the path c, read lexically from "/", is a symlink.
NoSymlinkOn(f, c) ==
    \A q \in LexicalPrefixes(c) : NodeAt(f, NormPath(<<>>, q)).kind # "symlink"

\* No symlink of the filesystem is part of a symlink loop: every symlink is
\* live or dangling.
LoopFree(f) ==
    \A loc \in Locations : f[loc].kind = "symlink" => Stat(f, loc).err # "ELOOP"

\* SANDBOX_ROOT exists as a directory (after the call: it was there or the
\* call created it).
RootIsDir == is_dir(fs, SANDBOX_ROOT)

\* Where the kernel finds SANDBOX_ROOT: the canonicalized root.
RootLoc == Stat(fs, SANDBOX_ROOT).loc

Validated == last.op = "validate_path"
Returned == last.out.kind = "ok"
Failed(msg) == last.out.kind = "PathValidationError" /\ last.out.msg = msg

\* The path of the last call passes validate_path.
PathIsValid == validate_path(fs, last.path, last.py).out.kind = "ok"

\* What the validated path of the last call leads to.
Target == Stat(fs, realpath(fs, Candidate(last.path)))

\* Two outcomes are the same result: the same value, or the same error.
SameResult(a, b) == a.kind = b.kind /\ a.value = b.value /\ a.msg = b.msg

\* C1: validate_path never returns a path outside the sandbox: a returned
\* path has no ".." and is the canonicalized SANDBOX_ROOT or has its parts
\* as a prefix; and on a filesystem of files, directories, live and
\* dangling symlinks a call fails with PathValidationError or returns a
\* path none of whose components is a symlink.
C1_ResultInsideSandbox ==
    /\ (Validated /\ Returned) =>
           /\ ParDir \notin Range(last.out.value)
           /\ IsPrefix(RootLoc, last.out.value)
    /\ (Validated /\ LoopFree(fs)) =>
           \/ last.out.kind = "PathValidationError"
           \/ Returned /\ NoSymlinkOn(fs, last.out.value)

\* C1 witness: a path with ".." was validated next to a symlink and a path
\* other than the candidate came back.
C1_Witness ==
    /\ Validated /\ Returned /\ LoopFree(fs)
    /\ ParDir \in Range(Candidate(last.path))
    /\ \E loc \in Locations : fs[loc].kind = "symlink"
    /\ Len(last.out.value) > Len(SANDBOX_ROOT)

\* C2 (as claimed): whenever a component of the candidate path below
\* SANDBOX_ROOT is a symlink (lstat), live or dangling, validate_path fails
\* with "Symlinks are not allowed".
C2_SymlinkAlwaysRejected ==
    (/\ Validated /\ LoopFree(fs)
     /\ \E q \in LexicalPrefixes(Candidate(last.path)) :
            Len(q) > Len(SANDBOX_ROOT) /\ is_symlink(fs, q))
        => Failed(SymlinkMsg)

SiblingPath == <<Dot, Dot, Slash, "s", "s", Slash, "s">>

\* The string of the path extends the string of SANDBOX_ROOT without the
\* path being SANDBOX_ROOT or below it.
ExtendsRootName(p) ==
    IsPrefix(PathStr(SANDBOX_ROOT), PathStr(p)) /\ ~IsPrefix(SANDBOX_ROOT, p)

C4_LexicalDotDot ==
    (Validated /\ RootIsDir /\ NoSymlinkOn(fs, Candidate(last.path))) =>
        IF IsPrefix(SANDBOX_ROOT, NormPath(<<>>, Candidate(last.path)))
        THEN Returned /\ last.out.value = NormPath(<<>>, Candidate(last.path))
        ELSE Failed(EscapeMsg)

\* C4 witness: "docs/../welcome.txt" with docs missing gave
\* SANDBOX_ROOT/welcome.txt.
C4_Witness ==
    /\ Validated /\ Returned
    /\ last.path = <<"s", Slash, Dot, Dot, Slash, "s", "s">>
    /\ fs[ChildA].kind = "none"
    /\ last.out.value = ChildB

\* C5 (as claimed): exactly one leading slash is removed, also from a path
\* that begins with several, and the remainder is joined to SANDBOX_ROOT.
C5_SingleSlashStripped ==
    Validated =>
        SameResult(last.out,
                   ValidateMade(mkdir(fs, SANDBOX_ROOT), last.path, StripOne(last.path),
                                last.py).out)

\* C5 (amended): every leading slash is removed: validate("/" + p) gives
\* the result of validate(p) for every p, and "/etc/passwd" is never the
\* path of that name below "/".
C5_LeadingSlashesIgnored ==
    /\ (Validated /\ StartsWithSlash(last.path)) =>
           SameResult(last.out, validate_path(fs, Tail(last.path), last.py).out)
    /\ (Validated /\ Returned /\ last.path = <<Slash, "s", Slash, "s", "s">>) =>
           /\ last.out.value # << <<"s">>, <<"s", "s">> >>
           /\ IsPrefix(SANDBOX_ROOT, last.out.value)

\* C5 witness: a path that begins with two slashes was validated and a
\* path below SANDBOX_ROOT came back.
C5_Witness ==
    /\ Validated /\ Returned
    /\ Len(last.path) > 2 /\ last.path[1] = Slash /\ last.path[2] = Slash
    /\ Len(last.out.value) > Len(SANDBOX_ROOT)

\* C6 (as claimed): whenever SANDBOX_ROOT exists or could be created,
\* validate_path("") returns the canonicalized SANDBOX_ROOT.
C6_EmptyPathIsRoot ==
    (Validated /\ last.path = <<>> /\ RootIsDir) =>
        Returned /\ last.out.value = RootLoc

Listed == last.op = "list_directory"

\* The children of the directory the last call listed that are no symlinks.
ListedChildren ==
    {c \in Locations :
        /\ Parent(c) = realpath(fs, Candidate(last.path))
        /\ fs[c].kind \notin {"none", "symlink"}}

\* C7: a listing has the names of the immediate children that are not
\* symlinks, each once, in strictly ascending order.
C7_ListingExact ==
    (Listed /\ Returned) =>
        /\ \A i, j \in 1..Len(last.out.value) :
               i < j => NameLess(last.out.value[i].name, last.out.value[j].name)
        /\ {e.name : e \in Range(last.out.value)} = {Name(c) : c \in ListedChildren}

\* C7 witness: the root was listed with two entries while a third child is
\* a symlink and one of the listed children has a child of its own.
C7_Witness ==
    /\ Listed /\ Returned /\ last.path = <<>>
    /\ Len(last.out.value) = 2
    /\ \E c \in {ChildA, ChildB, ChildDot} : fs[c].kind = "symlink"
    /\ fs[GrandChild].kind = "file"

\* C8 (as claimed): an entry is typed "directory" exactly when the child's
\* lstat type is directory and "file" otherwise, and has a size, which is
\* not negative, exactly when it is typed "file".
C8_TypeMatchesLstat ==
    (Listed /\ Returned) =>
        \A e \in Range(last.out.value) :
            /\ e.type = "directory" <=>
                   fs[Append(realpath(fs, Candidate(last.path)), e.name)].kind = "dir"
            /\ e.type \in {"directory", "file"}
            /\ e.size # <<>> <=> e.type = "file"
            /\ \A n \in Range(e.size) : n >= 0

Read == last.op = "read_file"

\* C9 (as claimed): read_file on a validated path gives FileNotFoundError
\* for a missing target, IsADirectoryError for a directory,
\* UnicodeDecodeError for bytes that are not UTF-8, and the text otherwise.
C9_ReadFourOutcomes ==
    (Read /\ PathIsValid) =>
        IF Target.err # "OK" THEN last.out.kind = "FileNotFoundError"
        ELSE IF Target.node.kind = "dir" THEN last.out.kind = "IsADirectoryError"
        ELSE IF ~Utf8Decode(Target.node.data).ok THEN last.out.kind = "UnicodeDecodeError"
        ELSE Returned /\ last.out.value = UniversalNewlines(Utf8Decode(Target.node.data).text)

\* C10: list_directory on a validated path fails with FileNotFoundError
\* when the target is missing, with NotADirectoryError when it is there
\* but no directory, and returns a listing only for a directory.
C10_ListErrorsByTarget ==
    (Listed /\ PathIsValid) =>
        /\ Target.err # "OK" => last.out.kind = "FileNotFoundError"
        /\ (Target.err = "OK" /\ Target.node.kind # "dir") =>
               last.out.kind = "NotADirectoryError"
        /\ Returned <=> (Target.err = "OK" /\ Target.node.kind = "dir")

\* C10 witness: a regular file was listed and NotADirectoryError came back.
C10_Witness ==
    /\ Listed /\ PathIsValid
    /\ Target.err = "OK" /\ Target.node.kind = "file"
    /\ last.out.kind = "NotADirectoryError"

\* The candidate path of the last call leaves the sandbox when read
\* lexically.
Escapes == ~IsPrefix(SANDBOX_ROOT, NormPath(<<>>, Candidate(last.path)))

\* A component of the candidate path of the last call below SANDBOX_ROOT is
\* a symlink (lstat).
CrossesSymlink ==
    \E q \in LexicalPrefixes(Candidate(last.path)) :
        Len(q) > Len(SANDBOX_ROOT) /\ is_symlink(fs, q)

\* C11 (as claimed): list_directory and read_file fail with
\* PathValidationError, and with nothing else, for every path that escapes
\* the sandbox or crosses a symlink (live or dangling).
C11_InvalidPathNeverUsed ==
    ((Listed \/ Read) /\ LoopFree(fs) /\ (Escapes \/ CrossesSymlink))
        => last.out.kind = "PathValidationError"

\* C12 (as claimed): validate_path ends with a path or with
\* PathValidationError, never with another kind of error.
C12_OnlyPathValidationError ==
    Validated => last.out.kind \in {"ok", "PathValidationError"}

\* C13 (as claimed): no failure of validate_path carries the absolute path
\* of the sandbox root or of the target in its message.
C13_NoAbsolutePathInMessage ==
    (Validated /\ last.out.kind = "PathValidationError") => last.out.leak = <<>>

\* The last call once more, on the filesystem it left.
Again ==
    CASE last.op = "validate_path" -> validate_path(fs, last.path, last.py)
      [] last.op = "list_directory" -> list_directory(fs, last.path, last.py)
      [] last.op = "read_file" -> read_file(fs, last.path, last.py)
      [] OTHER -> [fs |-> fs, out |-> last.out]

\* C14: a call repeated with the same input on the filesystem the first
\* call left gives the outcome of the first call, also when the first call
\* created SANDBOX_ROOT.
C14_RepeatedCallSameOutcome ==
    ~Idle => Again.out = last.out

\* C14 witness: a listing came back from the call that created
\* SANDBOX_ROOT.
C14_Witness ==
    Listed /\ Returned /\ last.made

\* C15: a call changes nothing in the filesystem but SANDBOX_ROOT, which it
\* creates as a directory where there was nothing; a call that does not
\* fail on creating the root leaves it a directory, and creating it again
\* changes nothing.
C15_OnlyRootCreated ==
    /\ [][(Idle /\ last' # NoCall) =>
            \A loc \in Locations :
                \/ fs'[loc] = fs[loc]
                \/ loc = SANDBOX_ROOT /\ fs[loc] = NoNode /\ fs'[loc] = DirNode]_vars
    /\ []((~Idle /\ ~Failed(InvalidMsg)) =>
            RootIsDir /\ mkdir(fs, SANDBOX_ROOT) = [fs |-> fs, err |-> "OK"])

\* C15 witness: the call that created SANDBOX_ROOT failed with the escape
\* error.
C15_Witness ==
    Validated /\ last.made /\ Failed(EscapeMsg) /\ fs[SANDBOX_ROOT] = DirNode

\* C17: list_files gives what list_directory gives and read_text_file what
\* read_file gives, errors included; ozfs_resource gives the value or the
\* error of read_file on the path without its leading slash, which is that
\* of read_file on the path itself.
C17_OuterLayersAddNothing ==
    /\ last.op = "list_files" =>
           last.out = list_directory(fs, last.path, last.py).out
    /\ last.op = "read_text_file" =>
           last.out = read_file(fs, last.path, last.py).out
    /\ last.op = "ozfs_resource" =>
           /\ SameResult(last.out, read_file(fs, StripOne(last.path), last.py).out)
           /\ SameResult(last.out, read_file(fs, last.path, last.py).out)

\* C17 witness: ozfs_resource returned the text of a file for a path that
\* begins with two slashes.
C17_Witness ==
    /\ last.op = "ozfs_resource" /\ Returned
    /\ Len(last.path) > 2 /\ last.path[1] = Slash /\ last.path[2] = Slash

\* C18 (as claimed): the symlink walk looks at nothing but the components
\* of the candidate path below SANDBOX_ROOT, so a path without ".." none
\* of whose components below the root is a symlink never fails with
\* "Symlinks are not allowed", whatever SANDBOX_ROOT itself is.
C18_RootNeverChecked ==
    (/\ Validated /\ RootIsDir
     /\ ParDir \notin Range(Candidate(last.path))
     /\ ~CrossesSymlink)
        => ~Failed(SymlinkMsg)

\* The filesystems that agree with f on SANDBOX_ROOT and everything in it
\* and have something else beside it.
OutsideVariants(f) ==
    {[f EXCEPT ![SIBLING] = n, ![Secret] = NoNode] :
        n \in {NoNode, DirNode, FileNode(Text), LinkNode(<< <<"s">> >>)}}

\* C19 (as claimed): the outcome of a call is the same on every filesystem
\* that differs only outside the sandbox.
C19_OutsideInvisible ==
    Validated =>
        \A g \in OutsideVariants(fs) :
            SameResult(validate_path(g, last.path, last.py).out, last.out)

\* The call c run alone, in one piece, on the filesystem f.
Alone(f, c, py) ==
    CASE c.op = "validate_path" -> validate_path(f, c.path, py).out
      [] c.op = "list_directory" -> list_directory(f, c.path, py).out
      [] c.op = "read_file" -> read_file(f, c.path, py).out

\* C16: while nothing but the calls themselves changes the filesystem,
\* every call that ends among other calls gives the outcome it gives when
\* run alone, also when the calls raced to create SANDBOX_ROOT.
C16_ConcurrentAsAlone ==
    \A k \in Callers :
        calls[k].pc = "done" =>
            \A py \in Interpreters : calls[k].out = Alone(fs, calls[k], py)

\* C16 witness: two calls began before either had made SANDBOX_ROOT; one
\* made it, and both have listed it.
C16_Witness ==
    /\ calls[1].pc = "done" /\ calls[2].pc = "done"
    /\ calls[1].made /\ calls[2].raced /\ ~calls[2].made
    /\ calls[1].op = "list_directory" /\ calls[1].out.kind = "ok"
    /\ calls[2].op = "list_directory" /\ calls[2].out.kind = "ok"

\* C20 (as claimed): whatever another process does to the filesystem
\* while a call runs, the file read_file returns the text of, and the
\* directory list_directory returns entries of, is in SANDBOX_ROOT.
C20_RaceStaysInside ==
    \A k \in Callers :
        (/\ calls[k].pc = "done" /\ calls[k].out.kind = "ok"
         /\ \/ calls[k].op = "read_file"
            \/ calls[k].op = "list_directory" /\ calls[k].out.value # <<>>)
            => IsPrefix(SANDBOX_ROOT, calls[k].loc)

====
